---- MODULE Spec2Model ----
(***************************************************************************)
(* A state-machine model of the Databricks notebook                        *)
(* DataEngineeringA2Notebook.py: one action per notebook cell, executed in *)
(* the notebook's order ("Run All").                                       *)
(*                                                                         *)
(* Representation.                                                         *)
(*  - A cell of a table is an option: Null (<<>>) is SQL NULL / pandas NaN,*)
(*    Some(v) (<<v>>) is the value v.                                      *)
(*  - A table (DataFrame, view, file) is a sequence of rows, a row a       *)
(*    record keyed by column name.  Column names resolve case-insensitively*)
(*    in Spark, so the column written as "year" is the field Year.         *)
(*  - A double is an integer here: the inputs are integer-valued sales     *)
(*    figures, on which double addition is exact.                          *)
(*  - A 64-bit integer (the Rank column) is the record [hi, lo] standing   *)
(*    for hi * 2^33 + lo; hi is the part monotonically_increasing_id takes *)
(*    from the partition number.                                           *)
(*  - A DataFrame is a query plan that every action on it (write, show,    *)
(*    toPandas, CREATE TABLE AS) evaluates anew, and the engine's choices  *)
(*    (order of equal sort keys, partitioning) are made in each            *)
(*    evaluation.  A DataFrame is therefore the set of the tables an       *)
(*    action on it may produce; a transformation maps that set, an action  *)
(*    picks one of its tables.                                             *)
(***************************************************************************)
EXTENDS Integers, Sequences, FiniteSets, TLC

\* ------------------------------------------------------------------ bounds
MaxRows == 2          \* data rows of an input file
MaxPartitions == 2    \* partitions the sorted table may be split into
MaxRuns == 2          \* runs of the notebook (SpecRerun)

\* ----------------------------------------------------------------- options
Null == <<>>
Some(v) == <<v>>
IsNull(c) == c = <<>>
Val(c) == c[1]

Range(s) == {s[i] : i \in DOMAIN s}

\* ------------------------------------------------------------- SQL values
\* A 64-bit integer hi * 2^33 + lo.
Long(hi, lo) == [hi |-> hi, lo |-> lo]
LongLess(a, b) == a.hi < b.hi \/ (a.hi = b.hi /\ a.lo < b.lo)

\* The decimal texts the inputs use, with their values.
ParseNumber(s) ==
    CASE s = "0" -> Some(0)
      [] s = "1" -> Some(1)
      [] s = "2" -> Some(2)
      [] s = "3" -> Some(3)
      [] s = "4" -> Some(4)
      [] s = "9" -> Some(9)
      [] OTHER   -> Null

\* col.cast(IntegerType()): a text that is no number becomes NULL.
CastInteger(c) ==
    IF IsNull(c) \/ IsNull(ParseNumber(Val(c))) THEN Null
    ELSE Some(Long(0, Val(ParseNumber(Val(c)))))

\* col.cast(DoubleType()).
CastDouble(c) == IF IsNull(c) THEN Null ELSE ParseNumber(Val(c))

\* A date; the casts below only ever produce the first of January.
Date(y) == [year |-> y, month |-> 1, day |-> 1]

ParseYear(s) ==
    CASE s = "2001" -> Some(2001)
      [] s = "2006" -> Some(2006)
      [] s = "2010" -> Some(2010)
      [] s = "2012" -> Some(2012)
      [] OTHER      -> Null

\* col.cast(DateType()) of a text "yyyy": the first day of that year.
CastDate(c) ==
    IF IsNull(c) \/ IsNull(ParseYear(Val(c))) THEN Null
    ELSE Some(Date(Val(ParseYear(Val(c)))))

YearText(y) ==
    CASE y = 2001 -> "2001"
      [] y = 2006 -> "2006"
      [] y = 2010 -> "2010"
      [] y = 2012 -> "2012"

\* date_format(col, "yyyy").
DateFormatYear(c) == IF IsNull(c) THEN Null ELSE Some(YearText(Val(c).year))

\* a + b in SQL: NULL when either side is.
Plus(a, b) == IF IsNull(a) \/ IsNull(b) THEN Null ELSE Some(Val(a) + Val(b))

\* --------------------------------------------------------------- the input
SalesColumns == {"NA_Sales", "EU_Sales", "JP_Sales", "Other_Sales", "Global_Sales"}

\* The games the input files are drawn from: title, platform, year, genre.
Games ==
    { [Name |-> "Alpha", Platform |-> "Wii", Year |-> "2001", Genre |-> "Sports"],
      [Name |-> "Beta",  Platform |-> "PS4", Year |-> "2010", Genre |-> "Action"] }

\* A line of the input file without its Rank: every cell is text, an empty
\* cell is NULL, "N/A" is a text that is no number.  The file's own
\* Global_Sales ("9") is never the sum of the regional figures.
Line(g, publisher, na) ==
    [Name |-> Some(g.Name), Platform |-> Some(g.Platform), Year |-> Some(g.Year),
     Genre |-> Some(g.Genre), Publisher |-> publisher, NA_Sales |-> Some(na),
     EU_Sales |-> Some("1"), JP_Sales |-> Some("0"), Other_Sales |-> Some("0"),
     Global_Sales |-> Some("9")]

\* The lines the input files are made of: equal and different sales, and a line
\* with an empty Publisher and a sales figure that is no number.
FileLines ==
    { Line(CHOOSE g \in Games : g.Name = "Alpha", Some("Activision"), "1"),
      Line(CHOOSE g \in Games : g.Name = "Beta", Some("Activision"), "1"),
      Line(CHOOSE g \in Games : g.Name = "Beta", Some("Activision"), "2"),
      Line(CHOOSE g \in Games : g.Name = "Beta", Null, "N/A") }

NumberText(n) ==
    CASE n = 0 -> "0" [] n = 1 -> "1" [] n = 2 -> "2" [] n = 3 -> "3"
      [] n = 4 -> "4" [] OTHER -> "9"

WithRank(line, rank) ==
    [c \in DOMAIN line \cup {"Rank"} |-> IF c = "Rank" THEN rank ELSE line[c]]

\* vgsales.csv: the Rank column of a file numbers its lines from 1.
Numbered(lines) == [i \in DOMAIN lines |-> WithRank(lines[i], Some(NumberText(i)))]

\* The files of at most MaxRows lines, no line twice.
FilesOver(lineSet) ==
    UNION { {Numbered(ls) : ls \in {f \in [1..n -> lineSet] :
                                       \A i, j \in 1..n : f[i] = f[j] => i = j}} :
            n \in 0..MaxRows }

Files == FilesOver(FileLines)

\* ------------------------------------------------------- DataFrame operations
\* DataFrame.withColumn(name, expr): the column is replaced (or added) in every row.
WithColumn(t, name, Expr(_)) ==
    [i \in DOMAIN t |->
        [c \in DOMAIN t[i] \cup {name} |-> IF c = name THEN Expr(t[i]) ELSE t[i][c]]]

\* DataFrame.select(cols).
Select(t, cols) == [i \in DOMAIN t |-> [c \in cols |-> t[i][c]]]

\* DataFrame.dropna(): a new table without the rows that hold a NULL.
DropNa(t) == SelectSeq(t, LAMBDA r : \A c \in DOMAIN r : ~IsNull(r[c]))

\* Descending order of a sort key, NULLs last: a comes strictly before b.
PrecedesDesc(a, b) == ~IsNull(a) /\ (IsNull(b) \/ Val(a) > Val(b))

\* DataFrame.orderBy: every arrangement of the rows in which no row comes before
\* one that Before puts ahead of it; the engine fixes no order among equal keys.
OrderBy(t, Before(_, _)) ==
    { s \in {[i \in DOMAIN t |-> t[p[i]]] : p \in Permutations(DOMAIN t)} :
        \A i, j \in DOMAIN s : i < j => ~Before(s[j], s[i]) }

\* DataFrame.orderBy(col("Global_Sales").desc())
OrderByGlobalSalesDesc(t) ==
    OrderBy(t, LAMBDA a, b : PrecedesDesc(a.Global_Sales, b.Global_Sales))

\* The ways the engine may split the sorted rows t into partitions: the
\* partition number (from 0) of each row.  The sort cuts the rows at bounds taken
\* from their own keys: the numbers never decrease along the sort order, the
\* first row is in partition 0, no partition before the last row's is empty, and
\* rows with equal keys share a partition.
Partitionings(t) ==
    { f \in [DOMAIN t -> 0..(MaxPartitions - 1)] :
        /\ \A i \in DOMAIN t : i = 1 => f[i] = 0
        /\ \A i, j \in DOMAIN t :
              /\ j = i + 1 => (f[j] = f[i] \/ f[j] = f[i] + 1)
              /\ t[i].Global_Sales = t[j].Global_Sales => f[i] = f[j] }

\* monotonically_increasing_id(): the partition number in the upper bits, the
\* number of the record within its partition (from 0) in the lower 33 bits.
MonotonicallyIncreasingId(part, i) ==
    Long(part[i], Cardinality({j \in 1..(i - 1) : part[j] = part[i]}))

\* id + 1 (the lower 33 bits never carry for the tables modelled).
LongPlus(a, n) == Long(a.hi, a.lo + n)

\* sum(col) over the rows of t: NULLs are skipped, and the sum of no value is NULL.
Sum(t, col) ==
    LET S[n \in 0..Len(t)] ==
            IF n = 0 THEN Null
            ELSE IF IsNull(t[n][col]) THEN S[n - 1]
            ELSE IF IsNull(S[n - 1]) THEN t[n][col]
            ELSE Plus(S[n - 1], t[n][col])
    IN  S[Len(t)]

\* The distinct values of a column, NULL among them, in order of first occurrence.
DistinctKeys(t, key) ==
    LET K[n \in 0..Len(t)] ==
            IF n = 0 THEN <<>>
            ELSE IF \E j \in 1..(n - 1) : t[j][key] = t[n][key] THEN K[n - 1]
            ELSE Append(K[n - 1], t[n][key])
    IN  K[Len(t)]

\* groupBy(key).agg(sum(...).alias("Total_..."), ...): one row per key value.
GroupBySales(t, key) ==
    LET keys == DistinctKeys(t, key)
        group(k) == SelectSeq(t, LAMBDA r : r[key] = k)
    IN  [i \in DOMAIN keys |->
            [c \in {key, "Total_NA_Sales", "Total_EU_Sales", "Total_JP_Sales",
                    "Total_Other_Sales", "Total_Global_Sales"} |->
                CASE c = key -> keys[i]
                  [] c = "Total_NA_Sales" -> Sum(group(keys[i]), "NA_Sales")
                  [] c = "Total_EU_Sales" -> Sum(group(keys[i]), "EU_Sales")
                  [] c = "Total_JP_Sales" -> Sum(group(keys[i]), "JP_Sales")
                  [] c = "Total_Other_Sales" -> Sum(group(keys[i]), "Other_Sales")
                  [] OTHER -> Sum(group(keys[i]), "Global_Sales")]]

\* Total_NA_Sales + Total_EU_Sales + Total_JP_Sales + Total_Other_Sales of a row.
RegionalTotal(r) ==
    Plus(Plus(Plus(r.Total_NA_Sales, r.Total_EU_Sales), r.Total_JP_Sales),
         r.Total_Other_Sales)

\* DataFrame.withColumnRenamed(old, new).
WithColumnRenamed(t, old, new) ==
    [i \in DOMAIN t |->
        [c \in (DOMAIN t[i] \ {old}) \cup {new} |->
            IF c = new THEN t[i][old] ELSE t[i][c]]]

Flatten(ss) ==
    LET F[n \in 0..Len(ss)] == IF n = 0 THEN <<>> ELSE F[n - 1] \o ss[n]
    IN  F[Len(ss)]

\* The rows of right that an equi-join on key pairs with a row: NULL equals nothing.
Matches(row, right, key) ==
    SelectSeq(right, LAMBDA x : ~IsNull(row[key]) /\ ~IsNull(x[key]) /\ x[key] = row[key])

\* An inner join: a left row that matches nothing is dropped.
LeftJoin_Inner(left, right, key, newcol) ==
    Flatten([i \in DOMAIN left |->
        LET m == Matches(left[i], right, key)
        IN  [j \in DOMAIN m |->
                [c \in DOMAIN left[i] \cup {newcol} |->
                    IF c = newcol THEN m[j][newcol] ELSE left[i][c]]]])

\* left.join(right, key, "left") where right has the columns key and newcol: one
\* output row per matching pair, and one with a NULL newcol for a left row that
\* matches nothing.
LeftJoin(left, right, key, newcol) ==
    Flatten([i \in DOMAIN left |->
        LET m == Matches(left[i], right, key)
            with(v) == [c \in DOMAIN left[i] \cup {newcol} |->
                           IF c = newcol THEN v ELSE left[i][c]]
        IN  IF m = <<>> THEN <<with(Null)>>
            ELSE [j \in DOMAIN m |-> with(m[j][newcol])]])

\* --------------------------------------------------------------- the state
VARIABLES
    file,              \* raw-data/vgsales.csv: its data rows, every cell a text
    catalog,           \* the metastore: Null, or Some(rows) of the table gamestb
    temp_table,        \* the temporary view over the loaded file
    gamestb, sorted_gamestb,
    total_sales_df, publisher_sales_df, platform_sales_df, genre_sales_df,
    gamestb_with_totals, df_with_totals_and_publisher_sales,
    df_with_totals_publisher_platform, df_with_totals_publisher_platform_genre,
    finalgames,
    exported,          \* transformed-data/games: Null, or Some(rows written)
    report,            \* query name -> Some(the DataFrame the query reads)
    frames,            \* pandas variable -> Null (unbound), or Some(frame)
    platform_colors,   \* Null (unbound), or Some(the colour table last assigned)
    shown,             \* Null, or Some(what the last report cell run displayed)
    mounted,           \* /mnt/project-games-data is mounted in the workspace
    pc,                \* the place in Notebook of the next cell to run, or of
                       \* the cell that raised
    raised,            \* Null, or Some(the exception that stopped the run)
    run,               \* the number of this run of the notebook
    previous           \* Null, or Some([file, exported]) of the run before

tables == <<gamestb, sorted_gamestb, total_sales_df, publisher_sales_df,
            platform_sales_df, genre_sales_df, gamestb_with_totals,
            df_with_totals_and_publisher_sales, df_with_totals_publisher_platform,
            df_with_totals_publisher_platform_genre, finalgames>>
storage == <<mounted, file, catalog, temp_table, exported>>
reports == <<report, frames, platform_colors, shown>>
vars == <<storage, tables, reports, pc, run, previous, raised>>

\* The cells of the notebook that act on data, in the notebook's order.
Notebook ==
    << "Mount", "LoadCsv", "CreateTable", "LoadTable", "CastRank", "CastYear", "CastSales",
       "top_10_highest_sales", "top_10_action", "DropNa", "FormatYear",
       "ValidateGlobalSales", "SortByGlobalSales", "RepopulateRank",
       "AggregateByName", "GameTotalSales", "JoinGameTotals",
       "AggregateByPublisher", "PublisherTotalSales", "JoinPublisherTotals",
       "AggregateByPlatform", "PlatformTotalSales", "JoinPlatformTotals",
       "AggregateByGenre", "GenreTotalSales", "JoinGenreTotals",
       "Reorder", "Export",
       "all_time_top_10", "all_time_top_10_pd", "all_time_genre", "all_time_genre_pd",
       "all_time_top_10_platform", "all_time_top_10_platform_pd",
       "all_time_top_10_publisher", "all_time_top_10_publisher_pd",
       "top_ranked_games", "top_ranked_games_pd",
       "top_ranked_games_2010", "top_ranked_games_2010_pd",
       "top_10_ps4", "top_10_ps4_pd", "top_10_2001", "top_10_2001_pd",
       "top_10_action_2010", "top_10_action_2010_pd",
       "top_10_eu_2012", "top_10_eu_2012_pd",
       "publisher_performance_over_time", "publisher_performance_over_time_pd",
       "just_cause_2_df", "games_released_per_year", "games_released_per_year_pd" >>

Index(cell) == CHOOSE i \in DOMAIN Notebook : Notebook[i] = cell
At(cell) == pc \in DOMAIN Notebook /\ Notebook[pc] = cell /\ IsNull(raised)
After(cell) == pc > Index(cell)

Init ==
    /\ mounted = FALSE
    /\ file \in Files
    /\ catalog = Null
    /\ temp_table = <<>>
    /\ gamestb = {} /\ sorted_gamestb = {}
    /\ total_sales_df = {} /\ publisher_sales_df = {}
    /\ platform_sales_df = {} /\ genre_sales_df = {}
    /\ gamestb_with_totals = {} /\ df_with_totals_and_publisher_sales = {}
    /\ df_with_totals_publisher_platform = {}
    /\ df_with_totals_publisher_platform_genre = {}
    /\ finalgames = {}
    /\ exported = Null
    /\ report = [q \in {} |-> Null]
    /\ frames = [f \in {} |-> Null]
    /\ platform_colors = Null
    /\ shown = Null
    /\ pc = 1
    /\ run = 1
    /\ previous = Null
    /\ raised = Null

\* ------------------------------------------------------------ Ingestion
\* dbutils.fs.mount(source=..., mount_point='/mnt/project-games-data', ...): a
\* mount point that is already mounted makes the call raise, and the run stops.
Mount ==
    /\ At("Mount")
    /\ mounted' = TRUE
    /\ pc' = IF mounted THEN pc ELSE pc + 1
    /\ raised' = IF mounted THEN Some("IllegalArgumentException") ELSE raised
    /\ UNCHANGED <<file, catalog, temp_table, exported, tables, reports, run, previous>>

\* spark.read.format("csv").option("header","true").load(...)
\*      .createOrReplaceTempView("temp_table")
LoadCsv ==
    /\ At("LoadCsv")
    /\ temp_table' = file
    /\ pc' = pc + 1
    /\ UNCHANGED <<mounted, file, catalog, exported, tables, reports, run, previous, raised>>

\* CREATE TABLE IF NOT EXISTS gamestb USING parquet AS SELECT * FROM temp_table
CreateTable ==
    /\ At("CreateTable")
    /\ catalog' = IF IsNull(catalog) THEN Some(temp_table) ELSE catalog
    /\ pc' = pc + 1
    /\ UNCHANGED <<mounted, file, temp_table, exported, tables, reports, run, previous, raised>>

\* A DataFrame-valued cell that assigns gamestb.
SetGamestb(cell, df) ==
    /\ At(cell)
    /\ gamestb' = df
    /\ pc' = pc + 1
    /\ UNCHANGED <<storage, sorted_gamestb, total_sales_df, publisher_sales_df,
                   platform_sales_df, genre_sales_df, gamestb_with_totals,
                   df_with_totals_and_publisher_sales,
                   df_with_totals_publisher_platform,
                   df_with_totals_publisher_platform_genre, finalgames,
                   reports, run, previous, raised>>

\* gamestb = spark.table("gamestb")
LoadTable == SetGamestb("LoadTable", {Val(catalog)})

\* ----------------------------------------------------- Schema Normalizer
CastRankColumn(t) == WithColumn(t, "Rank", LAMBDA r : CastInteger(r.Rank))
CastYearColumn(t) == WithColumn(t, "Year", LAMBDA r : CastDate(r.Year))
CastSalesColumns(t) ==
    [i \in DOMAIN t |->
        [c \in DOMAIN t[i] |-> IF c \in SalesColumns THEN CastDouble(t[i][c]) ELSE t[i][c]]]

CastRank == SetGamestb("CastRank", {CastRankColumn(t) : t \in gamestb})
CastYear == SetGamestb("CastYear", {CastYearColumn(t) : t \in gamestb})
CastSales == SetGamestb("CastSales", {CastSalesColumns(t) : t \in gamestb})

\* -------------------------------------------------------- Data Corrector
\* The cell "gamestb.dropna()": what gamestb is once the cell has run.  dropna
\* returns a new DataFrame, of the tables DropNa(t), which the cell binds to no
\* name.
GamestbAfterDropNa(df) ==
    LET dropped == {DropNa(t) : t \in df}
    IN  df

DropNaStep == SetGamestb("DropNa", GamestbAfterDropNa(gamestb))

FormatYearColumn(t) == WithColumn(t, "Year", LAMBDA r : DateFormatYear(r.Year))

FormatYear == SetGamestb("FormatYear", {FormatYearColumn(t) : t \in gamestb})

\* col("NA_Sales") + col("EU_Sales") + col("JP_Sales") + col("Other_Sales")
RegionalSum(r) == Plus(Plus(Plus(r.NA_Sales, r.EU_Sales), r.JP_Sales), r.Other_Sales)

\* A recomputation that leaves the file's Global_Sales in place.
GlobalSalesColumn_KeepsSource(t) == t

GlobalSalesColumn(t) == WithColumn(t, "Global_Sales", RegionalSum)

ValidateGlobalSales ==
    SetGamestb("ValidateGlobalSales", {GlobalSalesColumn(t) : t \in gamestb})

\* sorted_gamestb = gamestb.orderBy(col("Global_Sales").desc())
SortByGlobalSales ==
    /\ At("SortByGlobalSales")
    /\ sorted_gamestb' = UNION {OrderByGlobalSalesDesc(t) : t \in gamestb}
    /\ pc' = pc + 1
    /\ UNCHANGED <<storage, gamestb, total_sales_df, publisher_sales_df,
                   platform_sales_df, genre_sales_df, gamestb_with_totals,
                   df_with_totals_and_publisher_sales,
                   df_with_totals_publisher_platform,
                   df_with_totals_publisher_platform_genre, finalgames,
                   reports, run, previous, raised>>

\* withColumn("Rank", monotonically_increasing_id() + 1) for one partitioning.
RankColumn(t, part) ==
    [i \in DOMAIN t |->
        [t[i] EXCEPT !.Rank = Some(LongPlus(MonotonicallyIncreasingId(part, i), 1))]]

\* gamestb = sorted_gamestb.withColumn("Rank", monotonically_increasing_id() + 1):
\* every sort order of every evaluation, under every partitioning of it.
RepopulateRank ==
    SetGamestb("RepopulateRank",
               UNION { {RankColumn(s, part) : part \in Partitionings(s)} :
                       s \in sorted_gamestb })

\* ------------------------------------------------------------- functions
\* f with name bound to v.
Bind(f, name, v) == [n \in DOMAIN f \cup {name} |-> IF n = name THEN v ELSE f[n]]
Bound(f, name) == name \in DOMAIN f

\* ------------------------------------------------------- Rollup Aggregator
\* left.join(rollup.select(key, total), key, "left"): both sides are evaluated
\* in the action that evaluates the join.
JoinTotals(left, rollup, key, total) ==
    {LeftJoin(l, Select(r, {key, total}), key, total) : l \in left, r \in rollup}

\* groupBy(key).agg(...) and withColumn(total, ...) of a DataFrame.
GroupBySalesOf(df, key) == {GroupBySales(t, key) : t \in df}
WithTotalOf(df, total) == {WithColumn(t, total, RegionalTotal) : t \in df}

Aggregate(cell, key) ==
    /\ At(cell)
    /\ total_sales_df' = IF key = "Name" THEN GroupBySalesOf(gamestb, key) ELSE total_sales_df
    /\ publisher_sales_df' =
          IF key = "Publisher" THEN GroupBySalesOf(gamestb, key) ELSE publisher_sales_df
    /\ platform_sales_df' =
          IF key = "Platform" THEN GroupBySalesOf(gamestb, key) ELSE platform_sales_df
    /\ genre_sales_df' = IF key = "Genre" THEN GroupBySalesOf(gamestb, key) ELSE genre_sales_df
    /\ pc' = pc + 1
    /\ UNCHANGED <<storage, gamestb, sorted_gamestb, gamestb_with_totals,
                   df_with_totals_and_publisher_sales,
                   df_with_totals_publisher_platform,
                   df_with_totals_publisher_platform_genre, finalgames,
                   reports, run, previous, raised>>

TotalColumn(cell, key, total) ==
    /\ At(cell)
    /\ total_sales_df' =
          IF key = "Name" THEN WithTotalOf(total_sales_df, total)
          ELSE total_sales_df
    /\ publisher_sales_df' =
          IF key = "Publisher" THEN WithTotalOf(publisher_sales_df, total)
          ELSE publisher_sales_df
    /\ platform_sales_df' =
          IF key = "Platform" THEN WithTotalOf(platform_sales_df, total)
          ELSE platform_sales_df
    /\ genre_sales_df' =
          IF key = "Genre" THEN WithTotalOf(genre_sales_df, total)
          ELSE genre_sales_df
    /\ pc' = pc + 1
    /\ UNCHANGED <<storage, gamestb, sorted_gamestb, gamestb_with_totals,
                   df_with_totals_and_publisher_sales,
                   df_with_totals_publisher_platform,
                   df_with_totals_publisher_platform_genre, finalgames,
                   reports, run, previous, raised>>

AggregateByName == Aggregate("AggregateByName", "Name")
GameTotalSales == TotalColumn("GameTotalSales", "Name", "Game_Total_Sales")

\* gamestb_with_totals = gamestb.join(total_sales_df.select(...), "Name", "left")
JoinGameTotals ==
    /\ At("JoinGameTotals")
    /\ gamestb_with_totals' = JoinTotals(gamestb, total_sales_df, "Name", "Game_Total_Sales")
    /\ pc' = pc + 1
    /\ UNCHANGED <<storage, gamestb, sorted_gamestb, total_sales_df, publisher_sales_df,
                   platform_sales_df, genre_sales_df,
                   df_with_totals_and_publisher_sales,
                   df_with_totals_publisher_platform,
                   df_with_totals_publisher_platform_genre, finalgames,
                   reports, run, previous, raised>>

AggregateByPublisher == Aggregate("AggregateByPublisher", "Publisher")
PublisherTotalSales == TotalColumn("PublisherTotalSales", "Publisher", "Total_Sales")

\* df_with_totals_and_publisher_sales = gamestb_with_totals.join(
\*     publisher_sales_df.select("Publisher", "Total_Sales")
\*         .withColumnRenamed("Total_Sales", "Publisher_Total_Sales"), "Publisher", "left")
JoinPublisherTotals ==
    /\ At("JoinPublisherTotals")
    /\ df_with_totals_and_publisher_sales' =
          { LeftJoin(l, WithColumnRenamed(Select(r, {"Publisher", "Total_Sales"}),
                                          "Total_Sales", "Publisher_Total_Sales"),
                     "Publisher", "Publisher_Total_Sales") :
            l \in gamestb_with_totals, r \in publisher_sales_df }
    /\ pc' = pc + 1
    /\ UNCHANGED <<storage, gamestb, sorted_gamestb, total_sales_df, publisher_sales_df,
                   platform_sales_df, genre_sales_df, gamestb_with_totals,
                   df_with_totals_publisher_platform,
                   df_with_totals_publisher_platform_genre, finalgames,
                   reports, run, previous, raised>>

AggregateByPlatform == Aggregate("AggregateByPlatform", "Platform")
PlatformTotalSales == TotalColumn("PlatformTotalSales", "Platform", "Platform_Total_Sales")

\* df_with_totals_publisher_platform = df_with_totals_and_publisher_sales.join(...)
JoinPlatformTotals ==
    /\ At("JoinPlatformTotals")
    /\ df_with_totals_publisher_platform' =
          JoinTotals(df_with_totals_and_publisher_sales, platform_sales_df,
                     "Platform", "Platform_Total_Sales")
    /\ pc' = pc + 1
    /\ UNCHANGED <<storage, gamestb, sorted_gamestb, total_sales_df, publisher_sales_df,
                   platform_sales_df, genre_sales_df, gamestb_with_totals,
                   df_with_totals_and_publisher_sales,
                   df_with_totals_publisher_platform_genre, finalgames,
                   reports, run, previous, raised>>

AggregateByGenre == Aggregate("AggregateByGenre", "Genre")
GenreTotalSales == TotalColumn("GenreTotalSales", "Genre", "Genre_Total_Sales")

\* df_with_totals_publisher_platform_genre = df_with_totals_publisher_platform.join(...)
JoinGenreTotals ==
    /\ At("JoinGenreTotals")
    /\ df_with_totals_publisher_platform_genre' =
          JoinTotals(df_with_totals_publisher_platform, genre_sales_df,
                     "Genre", "Genre_Total_Sales")
    /\ pc' = pc + 1
    /\ UNCHANGED <<storage, gamestb, sorted_gamestb, total_sales_df, publisher_sales_df,
                   platform_sales_df, genre_sales_df, gamestb_with_totals,
                   df_with_totals_and_publisher_sales,
                   df_with_totals_publisher_platform, finalgames,
                   reports, run, previous, raised>>

\* ---------------------------------------------------------------- Exporter
FinalColumns ==
    {"Rank", "Name", "Platform", "Year", "Genre", "Publisher", "NA_Sales", "EU_Sales",
     "JP_Sales", "Other_Sales", "Global_Sales", "Game_Total_Sales",
     "Publisher_Total_Sales", "Platform_Total_Sales", "Genre_Total_Sales"}

\* select(col("Rank"), ..., col("year").cast("date").alias("Year"), ...)
ReorderColumns(t) ==
    [i \in DOMAIN t |->
        [c \in FinalColumns |-> IF c = "Year" THEN CastDate(t[i].Year) ELSE t[i][c]]]

Reorder ==
    /\ At("Reorder")
    /\ finalgames' = {ReorderColumns(t) : t \in df_with_totals_publisher_platform_genre}
    /\ pc' = pc + 1
    /\ UNCHANGED <<storage, gamestb, sorted_gamestb, total_sales_df, publisher_sales_df,
                   platform_sales_df, genre_sales_df, gamestb_with_totals,
                   df_with_totals_and_publisher_sales,
                   df_with_totals_publisher_platform,
                   df_with_totals_publisher_platform_genre,
                   reports, run, previous, raised>>

\* finalgames.write.option("header", 'true').mode("overwrite").csv(...): the rows
\* of one evaluation of finalgames are written; the text form of a value is not
\* modelled.
Export ==
    /\ At("Export")
    /\ \E t \in finalgames : exported' = Some(t)
    /\ pc' = pc + 1
    /\ UNCHANGED <<mounted, file, catalog, temp_table, tables, reports, run, previous, raised>>

\* Column.contains(part), over the texts the inputs use.
Contains(text, part) ==
    <<text, part>> \in {<<"Action", "Action">>, <<"2001-01-01", "2001">>}

\* ---------------------------------------------------------- Report Queries
TopN == 10

\* DataFrame.limit(n)
Limit(t, n) == SubSeq(t, 1, IF Len(t) < n THEN Len(t) ELSE n)

\* DataFrame.distinct()
Distinct(t) ==
    LET K[n \in 0..Len(t)] ==
            IF n = 0 THEN <<>>
            ELSE IF \E j \in 1..(n - 1) : t[j] = t[n] THEN K[n - 1]
            ELSE Append(K[n - 1], t[n])
    IN  K[Len(t)]

\* DataFrame.filter(cond): a row is kept when cond is true, not NULL, of it.
Filter(t, Cond(_)) == SelectSeq(t, Cond)

\* groupBy(keys).agg(Agg.alias(out)): one row per combination of key values.
GroupAgg(t, keys, out, Agg(_)) ==
    LET ks == Distinct(Select(t, keys))
        group(k) == SelectSeq(t, LAMBDA r : \A c \in keys : r[c] = k[c])
    IN  [i \in DOMAIN ks |->
            [c \in keys \cup {out} |-> IF c = out THEN Agg(group(ks[i])) ELSE ks[i][c]]]

\* countDistinct(col): the number of distinct values that are not NULL.
CountDistinct(t, col) == Some(Cardinality({r[col] : r \in Range(t)} \ {Null}))

\* col.desc(): NULLs last.  col.asc(): NULLs first.
Desc(col, a, b) == PrecedesDesc(a[col], b[col])
RankAsc(a, b) ==
    ~IsNull(b.Rank) /\ (IsNull(a.Rank) \/ LongLess(Val(a.Rank), Val(b.Rank)))
YearDesc(a, b) ==
    ~IsNull(a.Year) /\ (IsNull(b.Year) \/ Val(a.Year).year > Val(b.Year).year)

\* The text of a date, "yyyy-MM-dd".
DateText(d) ==
    CASE d.year = 2001 -> "2001-01-01"
      [] d.year = 2006 -> "2006-01-01"
      [] d.year = 2010 -> "2010-01-01"
      [] d.year = 2012 -> "2012-01-01"

\* A comparison of the date column Year with a text: the text is cast to a date.
YearIs(r, text) == ~IsNull(r.Year) /\ Some(Val(r.Year)) = CastDate(Some(text))
YearSince(r, y) == ~IsNull(r.Year) /\ Val(r.Year).year >= y
Is(r, col, text) == ~IsNull(r[col]) /\ Val(r[col]) = text

\* gamestb.orderBy("Rank").limit(10), and
\* gamestb.orderBy("Rank").filter(col("Genre").contains("Action")).limit(10),
\* on the table t.
EarlyOutcomes(cell, t) ==
    { Limit(IF cell = "top_10_action"
            THEN Filter(s, LAMBDA r : ~IsNull(r.Genre) /\ Contains(Val(r.Genre), "Action"))
            ELSE s,
            TopN) :
      s \in OrderBy(t, RankAsc) }

\* The results a query may produce on the DataFrame df: one evaluation of df,
\* then one of the query on it.
EarlyOutcomesOf(cell, df) == UNION {EarlyOutcomes(cell, t) : t \in df}

\* What a cell displays: the rows of a .show(), or the figure of a fig.show().
Rows(cell, out) == [cell |-> cell, rows |-> Some(Range(out)), figure |-> Null]
Drawn(cell, fig) == [cell |-> cell, rows |-> Null, figure |-> Some(fig)]

\* The first two report queries: .show() on gamestb as the Normalizer left it.
\* report keeps the DataFrame the query reads.
EarlyQuery(cell) ==
    /\ At(cell)
    /\ report' = Bind(report, cell, Some(gamestb))
    /\ \E out \in EarlyOutcomesOf(cell, gamestb) : shown' = Some(Rows(cell, out))
    /\ pc' = pc + 1
    /\ UNCHANGED <<storage, tables, frames, platform_colors, run, previous, raised>>

Top10HighestSales == EarlyQuery("top_10_highest_sales")
Top10Action == EarlyQuery("top_10_action")

FinalQueries ==
    {"all_time_top_10", "all_time_genre", "all_time_top_10_platform",
     "all_time_top_10_publisher", "top_ranked_games", "top_ranked_games_2010",
     "top_10_ps4", "top_10_2001", "top_10_action_2010", "top_10_eu_2012",
     "publisher_performance_over_time", "just_cause_2_df", "games_released_per_year"}

EarlyQueries == {"top_10_highest_sales", "top_10_action"}

\* select(key, total [.alias(as)]).distinct().orderBy(total.desc())
Popularity(fg, key, total, as) ==
    OrderBy(Distinct(WithColumnRenamed(Select(fg, {key, total}), total, as)),
            LAMBDA a, b : Desc(as, a, b))

RankedColumns == {"Rank", "Name", "Platform", "Global_Sales", "Year"}

\* The results a report query may produce on the final table fg.
QueryOutcomes(q, fg) ==
    CASE q = "all_time_top_10" ->
            {Limit(s, TopN) : s \in Popularity(fg, "Name", "Game_Total_Sales", "Total Sales")}
      [] q = "all_time_genre" ->
            Popularity(fg, "Genre", "Genre_Total_Sales", "Total Sales")
      [] q = "all_time_top_10_platform" ->
            {Limit(s, TopN) : s \in Popularity(fg, "Platform", "Platform_Total_Sales",
                                               "Platform_Total_Sales")}
      [] q = "all_time_top_10_publisher" ->
            {Limit(s, TopN) : s \in Popularity(fg, "Publisher", "Publisher_Total_Sales",
                                               "Publisher_Total_Sales")}
      [] q = "top_ranked_games" ->
            {Limit(s, TopN) : s \in OrderBy(Select(fg, RankedColumns), RankAsc)}
      [] q = "top_ranked_games_2010" ->
            {Limit(s, TopN) : s \in
                OrderBy(Filter(Select(fg, RankedColumns), LAMBDA r : YearSince(r, 2010)),
                        RankAsc)}
      [] q = "top_10_ps4" ->
            {Limit(s, TopN) : s \in
                OrderBy(Filter(Select(fg, {"Name", "Platform", "Global_Sales"}),
                               LAMBDA r : Is(r, "Platform", "PS4")),
                        LAMBDA a, b : Desc("Global_Sales", a, b))}
      [] q = "top_10_2001" ->
            {Limit(s, TopN) : s \in
                OrderBy(Distinct(Filter(Select(fg, {"Name", "Year", "Game_Total_Sales"}),
                                        LAMBDA r : ~IsNull(r.Year)
                                                   /\ Contains(DateText(Val(r.Year)), "2001"))),
                        LAMBDA a, b : Desc("Game_Total_Sales", a, b))}
      [] q = "top_10_action_2010" ->
            {Limit(s, TopN) : s \in
                OrderBy(GroupAgg(Filter(fg, LAMBDA r : YearIs(r, "2010") /\ Is(r, "Genre", "Action")),
                                 {"Name"}, "Total Sales", LAMBDA g : Sum(g, "Global_Sales")),
                        LAMBDA a, b : Desc("Total Sales", a, b))}
      [] q = "top_10_eu_2012" ->
            {Limit(s, TopN) : s \in
                OrderBy(GroupAgg(Filter(fg, LAMBDA r : YearIs(r, "2012")),
                                 {"Name"}, "Total EU Sales", LAMBDA g : Sum(g, "EU_Sales")),
                        LAMBDA a, b : Desc("Total EU Sales", a, b))}
      [] q = "publisher_performance_over_time" ->
            OrderBy(Filter(GroupAgg(fg, {"Year", "Publisher"}, "Total Sales",
                                    LAMBDA g : Sum(g, "Global_Sales")),
                           LAMBDA r : Is(r, "Publisher", "Activision")),
                    YearDesc)
      [] q = "just_cause_2_df" ->
            {Filter(Select(fg, {"Name", "Year"}), LAMBDA r : Is(r, "Name", "Just Cause 2"))}
      [] q = "games_released_per_year" ->
            OrderBy(GroupAgg(fg, {"Year"}, "Games Released",
                             LAMBDA g : CountDistinct(g, "Name")),
                    YearDesc)

\* The results a report query may produce on the DataFrame df: one evaluation
\* of df, then one of the query on it.
QueryOutcomesOf(q, df) == UNION {QueryOutcomes(q, fg) : fg \in df}

\* The two queries that order by finalgames[total] after
\* select(key, col(total).alias("Total Sales")).distinct(), whose output no
\* longer holds the column total.  Whether the analyzer resolves the sort column
\* through the distinct is the engine's: it may (the rows are then sorted by the
\* total, as in Popularity), or the cell raises AnalysisException.
SortsOnHiddenColumn == {"all_time_top_10", "all_time_genre"}

\* What a cell displays when the analyzer rejects its query.
AnalysisException ==
    [error |-> "AnalysisException", kind |-> "", title |-> "", x |-> <<>>, y |-> <<>>,
     colours |-> <<>>]

\* A query cell whose query the analyzer rejects: orderBy raises, so the name is
\* not bound and nothing is shown but the error.
QueryRaises(q) ==
    /\ q \in SortsOnHiddenColumn
    /\ shown' = Some([cell |-> q, rows |-> Null, figure |-> Some(AnalysisException)])
    /\ raised' = Some("AnalysisException")
    /\ UNCHANGED <<storage, tables, report, frames, platform_colors, run, previous>>

\* A query cell that reads the working table gamestb instead of finalgames.
RunQuery_OnGamestb(q) ==
    /\ report' = Bind(report, q, Some(gamestb))
    /\ \E out \in QueryOutcomesOf(q, finalgames) : shown' = Some(Rows(q, out))
    /\ UNCHANGED <<storage, tables, frames, platform_colors, run, previous, raised>>

\* A query cell: the query is bound to its name and its rows are shown.
RunQuery(q) ==
    /\ report' = Bind(report, q, Some(finalgames))
    /\ \E out \in QueryOutcomesOf(q, finalgames) : shown' = Some(Rows(q, out))
    /\ UNCHANGED <<storage, tables, frames, platform_colors, run, previous, raised>>

\* ----------------------------------------------------------- Chart Renderer
\* What a cell displays when it reads a name that is not bound.
NameError ==
    [error |-> "NameError", kind |-> "", title |-> "", x |-> <<>>, y |-> <<>>, colours |-> <<>>]

\* px.bar / px.pie / px.line of a frame: the values the figure is given, in the
\* frame's order; how a NaN among them is drawn is not modelled.
Figure(kind, title, frame, x, y, colours) ==
    [error |-> "", kind |-> kind, title |-> title,
     x |-> [i \in DOMAIN frame |-> frame[i][x]],
     y |-> [i \in DOMAIN frame |-> frame[i][y]],
     colours |-> colours]

\* The chart cells that read nothing but their own query: the query, the kind of
\* chart, the columns drawn and the title.
Charts ==
    [all_time_top_10_pd |->
        [query |-> "all_time_top_10", kind |-> "bar", x |-> "Name", y |-> "Total Sales",
         title |-> "Top 10 Games by Total Sales (in Millions)"],
     all_time_genre_pd |->
        [query |-> "all_time_genre", kind |-> "bar", x |-> "Genre", y |-> "Total Sales",
         title |-> "Top 10 Genres by Total Sales (in Millions)"],
     all_time_top_10_platform_pd |->
        [query |-> "all_time_top_10_platform", kind |-> "pie", x |-> "Platform",
         y |-> "Platform_Total_Sales",
         title |-> "Top 10 Platforms by Total Sales (in Millions)"],
     all_time_top_10_publisher_pd |->
        [query |-> "all_time_top_10_publisher", kind |-> "pie", x |-> "Publisher",
         y |-> "Publisher_Total_Sales",
         title |-> "Top 10 Publishers by Total Sales (in Millions)"],
     top_10_ps4_pd |->
        [query |-> "top_10_ps4", kind |-> "pie", x |-> "Name", y |-> "Global_Sales",
         title |-> "Top 10 PS4 Games by Total Sales (in Millions)"],
     top_10_2001_pd |->
        [query |-> "top_10_2001", kind |-> "pie", x |-> "Name", y |-> "Game_Total_Sales",
         title |-> "Top 10 Games in 2001 by Total Sales (in Millions)"],
     top_10_action_2010_pd |->
        [query |-> "top_10_action_2010", kind |-> "bar", x |-> "Name", y |-> "Total Sales",
         title |-> "Top 10 Action Games in 2010 by Total Sales (in Millions)"],
     top_10_eu_2012_pd |->
        [query |-> "top_10_eu_2012", kind |-> "bar", x |-> "Name", y |-> "Total EU Sales",
         title |-> "Top 10 Games in the EU in 2012 by Total Sales (in Millions)"],
     publisher_performance_over_time_pd |->
        [query |-> "publisher_performance_over_time", kind |-> "line", x |-> "Year",
         y |-> "Total Sales", title |-> "Activision Performance"],
     games_released_per_year_pd |->
        [query |-> "games_released_per_year", kind |-> "line", x |-> "Year",
         y |-> "Games Released", title |-> "Games Released per Year"]]

\* x_pd = x.toPandas(); fig = px.<kind>(x_pd, ...); fig.show(): toPandas
\* evaluates the query, and the DataFrame it reads, again.
RunChart(c) ==
    /\ IF Bound(report, Charts[c].query)
       THEN \E out \in QueryOutcomesOf(Charts[c].query, Val(report[Charts[c].query])) :
               /\ frames' = Bind(frames, c, Some(out))
               /\ shown' = Some(Drawn(c, Figure(Charts[c].kind, Charts[c].title, out,
                                                Charts[c].x, Charts[c].y, <<>>)))
       ELSE /\ frames' = frames
            /\ shown' = Some(Drawn(c, NameError))
    /\ UNCHANGED <<storage, tables, report, platform_colors, run, previous>>

\* The two literal platform_colors tables.
PlatformColorsA ==
    ("Wii" :> "blue") @@ ("NES" :> "green") @@ ("Gameboy" :> "red")
        @@ ("DS" :> "purple") @@ ("Mobile" :> "orange") @@ ("Switch" :> "yellow")
PlatformColorsB ==
    ("PS3" :> "blue") @@ ("X360" :> "green") @@ ("PS4" :> "red")
        @@ ("DS" :> "purple") @@ ("3DS" :> "orange")

\* Series.map(dict) of one value: NaN for a value that is no key.
MapValue(dict, v) ==
    IF ~IsNull(v) /\ Val(v) \in DOMAIN dict THEN Some(dict[Val(v)]) ELSE Null

\* frame['Color'] = other['Platform'].map(dict), frame a frame of the ranked
\* queries.  A frame without rows that is assigned a series with rows first
\* takes the series' index, every column it had NaN; otherwise the assignment
\* aligns on the index, and a row of frame whose index other lacks gets NaN.
WithColor(frame, other, dict) ==
    IF frame = <<>> /\ other # <<>>
    THEN [i \in DOMAIN other |->
            [c \in RankedColumns \cup {"Color"} |->
                IF c = "Color" THEN MapValue(dict, other[i].Platform) ELSE Null]]
    ELSE [i \in DOMAIN frame |->
            [c \in DOMAIN frame[i] \cup {"Color"} |->
                IF c # "Color" THEN frame[i][c]
                ELSE IF i \in DOMAIN other THEN MapValue(dict, other[i].Platform)
                ELSE Null]]

\* frame.sort_values(by='Rank'): ascending, the rows whose Rank is NaN last in
\* the order they had.
SortValuesByRank(frame) ==
    { s \o SelectSeq(frame, LAMBDA r : IsNull(r.Rank)) :
      s \in OrderBy(SelectSeq(frame, LAMBDA r : ~IsNull(r.Rank)), RankAsc) }

\* px.bar(frame.sort_values(by='Rank'), x='Name', y='Rank', title=...,
\*        color='Platform', color_discrete_map=dict)
RankedFigure(frame, dict) ==
    { Figure("bar", "Top 10 Ranked Games", s, "Name", "Rank",
             [i \in DOMAIN s |-> MapValue(dict, s[i].Platform)]) :
      s \in SortValuesByRank(frame) }

\* The cell "Top Ranked Games Visualisation with Plotly".
RunTopRankedChart ==
    /\ IF Bound(report, "top_ranked_games")
       THEN \E out \in QueryOutcomesOf("top_ranked_games", Val(report["top_ranked_games"])) :
               LET frame == WithColor(out, out, PlatformColorsA)
               IN  /\ frames' = Bind(frames, "top_ranked_games_pd", Some(frame))
                   /\ platform_colors' = Some(PlatformColorsA)
                   /\ \E fig \in RankedFigure(frame, PlatformColorsA) :
                         shown' = Some(Drawn("top_ranked_games_pd", fig))
       ELSE /\ shown' = Some(Drawn("top_ranked_games_pd", NameError))
            /\ UNCHANGED <<frames, platform_colors>>
    /\ UNCHANGED <<storage, tables, report, run, previous>>

\* The cell "Top 10 Ranked since 2010 Visualisation with Plotly": its Color
\* column is mapped from top_ranked_games_pd['Platform'], the other chart's frame.
RunTopRanked2010Chart ==
    /\ IF ~Bound(report, "top_ranked_games_2010")
       THEN /\ shown' = Some(Drawn("top_ranked_games_2010_pd", NameError))
            /\ UNCHANGED <<frames, platform_colors>>
       ELSE \E out \in QueryOutcomesOf("top_ranked_games_2010",
                                       Val(report["top_ranked_games_2010"])) :
               /\ platform_colors' = Some(PlatformColorsB)
               /\ IF ~Bound(frames, "top_ranked_games_pd")
                  THEN /\ frames' = Bind(frames, "top_ranked_games_2010_pd", Some(out))
                       /\ shown' = Some(Drawn("top_ranked_games_2010_pd", NameError))
                  ELSE LET frame == WithColor(out, Val(frames["top_ranked_games_pd"]),
                                              PlatformColorsB)
                       IN  /\ frames' = Bind(frames, "top_ranked_games_2010_pd", Some(frame))
                           /\ \E fig \in RankedFigure(frame, PlatformColorsB) :
                                 shown' = Some(Drawn("top_ranked_games_2010_pd", fig))
    /\ UNCHANGED <<storage, tables, report, run, previous>>

\* ------------------------------------------------- the notebook, run in order
QueryCell ==
    \E q \in FinalQueries :
        /\ At(q)
        /\ \/ RunQuery(q) /\ pc' = pc + 1
           \/ QueryRaises(q) /\ pc' = pc

\* After a chart cell: the run goes on, or stops at the cell when it raised.
ChartDone ==
    IF Val(shown').figure = Some(NameError)
    THEN pc' = pc /\ raised' = Some("NameError")
    ELSE pc' = pc + 1 /\ raised' = raised

ChartCell ==
    \E c \in DOMAIN Charts : At(c) /\ RunChart(c) /\ ChartDone

TopRankedChart == At("top_ranked_games_pd") /\ RunTopRankedChart /\ ChartDone

TopRanked2010Chart ==
    At("top_ranked_games_2010_pd") /\ RunTopRanked2010Chart /\ ChartDone

\* "Run all" has stopped at a cell that raised: the user runs the cells below it.
RunBelow ==
    /\ ~IsNull(raised)
    /\ pc' = pc + 1
    /\ raised' = Null
    /\ UNCHANGED <<storage, tables, reports, run, previous>>

Pipeline ==
    \/ Mount \/ LoadCsv \/ CreateTable \/ LoadTable
    \/ CastRank \/ CastYear \/ CastSales
    \/ Top10HighestSales \/ Top10Action
    \/ DropNaStep \/ FormatYear \/ ValidateGlobalSales
    \/ SortByGlobalSales \/ RepopulateRank
    \/ AggregateByName \/ GameTotalSales \/ JoinGameTotals
    \/ AggregateByPublisher \/ PublisherTotalSales \/ JoinPublisherTotals
    \/ AggregateByPlatform \/ PlatformTotalSales \/ JoinPlatformTotals
    \/ AggregateByGenre \/ GenreTotalSales \/ JoinGenreTotals
    \/ Reorder \/ Export

Next ==
    Pipeline \/ QueryCell \/ ChartCell \/ TopRankedChart \/ TopRanked2010Chart \/ RunBelow

Spec == Init /\ [][Next]_vars

\* ------------------------------------------ report cells run in any order
\* Once the final table is written, the cells of the two ranked charts and of
\* their queries are run one at a time in whatever order the user picks.
AnyQuery ==
    /\ After("Export")
    /\ \E q \in {"top_ranked_games", "top_ranked_games_2010"} : RunQuery(q)
    /\ UNCHANGED <<pc, raised>>

AnyTopRankedChart == After("Export") /\ RunTopRankedChart /\ UNCHANGED <<pc, raised>>

AnyTopRanked2010Chart ==
    After("Export") /\ RunTopRanked2010Chart /\ UNCHANGED <<pc, raised>>

NextAnyOrder == Pipeline \/ AnyQuery \/ AnyTopRankedChart \/ AnyTopRanked2010Chart

SpecAnyOrder == Init /\ [][NextAnyOrder]_vars

\* --------------------------------------------------- the pipeline run again
\* A new run starts at the cell first.  The workspace's mounts, the metastore,
\* the files and the notebook's variables are as the run before left them.
RunFrom(first) ==
    /\ After("Export") \/ ~IsNull(raised)
    /\ ~IsNull(exported)
    /\ run < MaxRuns
    /\ run' = run + 1
    /\ pc' = Index(first)
    /\ raised' = Null
    /\ previous' = Some([file |-> file, exported |-> Val(exported)])
    /\ UNCHANGED <<storage, tables, reports>>

\* "Run all": the notebook is run again from its first cell, the mount.
Rerun == RunFrom("Mount")

\* The pipeline is run again from its first stage, the cell that loads the CSV.
RerunPipeline == RunFrom("LoadCsv")

\* Between two runs the input file is replaced by another.
RewriteInput ==
    /\ At("Mount") \/ At("LoadCsv")
    /\ ~IsNull(previous)
    /\ file = Val(previous).file
    /\ file' \in Files \ {file}
    /\ UNCHANGED <<mounted, catalog, temp_table, exported, tables, reports, pc, run,
                   previous, raised>>

NextRerun == Pipeline \/ Rerun \/ RerunPipeline \/ RewriteInput

SpecRerun == Init /\ [][NextRerun]_vars

\* ================================================================== claims
Complete(r) == \A c \in DOMAIN r : ~IsNull(r[c])
Finished == pc = Len(Notebook) + 1
RollupKeys ==
    { <<"Name", "Game_Total_Sales">>, <<"Publisher", "Publisher_Total_Sales">>,
      <<"Platform", "Platform_Total_Sales">>, <<"Genre", "Genre_Total_Sales">> }

\* C1: once the drop-null cell has run, the table the later stages consume
\* (the global-sales recomputation, the rank reassignment, the rollups, the
\* export) holds no row with a NULL in any column.
C1_NoNullRowAfterDropNa ==
    After("DropNa") => \A t \in gamestb : \A r \in Range(t) : Complete(r)

\* C2: in the corrected table, the final table and the rows exported, every
\* row's Global_Sales is the (NULL-propagating) sum of that row's NA_Sales,
\* EU_Sales, JP_Sales and Other_Sales, whatever the file's Global_Sales was.
GlobalIsRegionalSum(r) ==
    IF IsNull(r.NA_Sales) \/ IsNull(r.EU_Sales) \/ IsNull(r.JP_Sales) \/ IsNull(r.Other_Sales)
    THEN IsNull(r.Global_Sales)
    ELSE /\ ~IsNull(r.Global_Sales)
         /\ Val(r.Global_Sales) =
               Val(r.NA_Sales) + Val(r.EU_Sales) + Val(r.JP_Sales) + Val(r.Other_Sales)

C2_GlobalSalesIsRegionalSum ==
    /\ After("ValidateGlobalSales") =>
          \A t \in gamestb : \A r \in Range(t) : GlobalIsRegionalSum(r)
    /\ After("Reorder") =>
          \A t \in finalgames : \A r \in Range(t) : GlobalIsRegionalSum(r)
    /\ After("Export") => \A r \in Range(Val(exported)) : GlobalIsRegionalSum(r)

\* C2 witness: a file whose Global_Sales cells read "9" has been exported with
\* a row whose Global_Sales is 1 + 1 + 0 + 0 = 2 and one whose Global_Sales is 3.
C2_Witness ==
    /\ After("Export")
    /\ \A i \in DOMAIN file : file[i].Global_Sales = Some("9")
    /\ \E r \in Range(Val(exported)) : r.Global_Sales = Some(2)
    /\ \E r \in Range(Val(exported)) : r.Global_Sales = Some(3)

\* C3: after the rank reassignment the Rank column is a permutation of 1..N,
\* N the number of rows of the table, however the sorted rows are partitioned.
C3_RankIsPermutation ==
    After("RepopulateRank") =>
        \A t \in gamestb :
            /\ \A i, j \in DOMAIN t : i # j => t[i].Rank # t[j].Rank
            /\ {r.Rank : r \in Range(t)} = {Some(Long(0, k)) : k \in 1..Len(t)}

\* t is s with another Rank column: the same rows in the same order.
SameButRank(s, t) ==
    /\ DOMAIN s = DOMAIN t
    /\ \A i \in DOMAIN s : \A c \in DOMAIN s[i] : c # "Rank" => s[i][c] = t[i][c]

\* C4: after the rank reassignment a row with larger Global_Sales has the
\* smaller Rank, the row with the largest Global_Sales has Rank 1, and rows
\* with equal Global_Sales are ranked in the order of their lines in the input
\* (a table t of gamestb is a table s of sorted_gamestb with new ranks, and the
\* Rank of a row of s is still the line number the file gave it).
C4_RankFollowsSalesAndInputOrder ==
    After("RepopulateRank") =>
        \A t \in gamestb : \A s \in sorted_gamestb : SameButRank(s, t) =>
            \A i, j \in DOMAIN t :
                LET a == t[i]
                    b == t[j]
                    lineA == Val(s[i].Rank)
                    lineB == Val(s[j].Rank)
                IN  (~IsNull(a.Global_Sales) /\ ~IsNull(b.Global_Sales)) =>
                      /\ Val(a.Global_Sales) > Val(b.Global_Sales)
                            => LongLess(Val(a.Rank), Val(b.Rank))
                      /\ (\A k \in DOMAIN t :
                             ~IsNull(t[k].Global_Sales)
                                => Val(t[k].Global_Sales) <= Val(a.Global_Sales))
                            => \E k \in DOMAIN t :
                                  /\ t[k].Global_Sales = a.Global_Sales
                                  /\ t[k].Rank = Some(Long(0, 1))
                      /\ (Val(a.Global_Sales) = Val(b.Global_Sales) /\ LongLess(lineA, lineB))
                            => LongLess(Val(a.Rank), Val(b.Rank))

\* C5: in the final table, for each grouping key and each row, the row's
\* *_Total_Sales is the sum of Global_Sales over the rows sharing its key value
\* (and so is the same on all of them).
C5_RollupIsGroupSum ==
    After("Reorder") =>
        \A fg \in finalgames : \A kt \in RollupKeys : \A r \in Range(fg) :
            r[kt[2]] = Sum(SelectSeq(fg, LAMBDA x : x[kt[1]] = r[kt[1]]), "Global_Sales")

\* C6: each of the four rollup joins yields as many rows as the corrected base
\* table, adds exactly its one column, and leaves every column its input row
\* already had unchanged: every table the join may produce is a table of its
\* left input with the one column added, and every table of the left input is
\* so extended.
AddsOneColumn(before, after, newcol) ==
    /\ Len(after) = Len(before)
    /\ \A i \in DOMAIN before :
          /\ i \in DOMAIN after
          /\ DOMAIN after[i] = DOMAIN before[i] \cup {newcol}
          /\ newcol \notin DOMAIN before[i]
          /\ \A c \in DOMAIN before[i] : after[i][c] = before[i][c]

JoinAddsOneColumn(left, joined, newcol) ==
    /\ \A after \in joined : \E before \in left : AddsOneColumn(before, after, newcol)
    /\ \A before \in left : \E after \in joined : AddsOneColumn(before, after, newcol)

C6_JoinsAddOneColumn ==
    /\ After("JoinGameTotals") =>
          JoinAddsOneColumn(gamestb, gamestb_with_totals, "Game_Total_Sales")
    /\ After("JoinPublisherTotals") =>
          JoinAddsOneColumn(gamestb_with_totals, df_with_totals_and_publisher_sales,
                            "Publisher_Total_Sales")
    /\ After("JoinPlatformTotals") =>
          JoinAddsOneColumn(df_with_totals_and_publisher_sales,
                            df_with_totals_publisher_platform, "Platform_Total_Sales")
    /\ After("JoinGenreTotals") =>
          /\ JoinAddsOneColumn(df_with_totals_publisher_platform,
                               df_with_totals_publisher_platform_genre, "Genre_Total_Sales")
          /\ \A t \in df_with_totals_publisher_platform_genre :
                \A g \in gamestb : Len(t) = Len(g)

\* C6 witness: all four joins have run on a two-row table in which one row has
\* no Publisher (its join matches nothing) and the other has a publisher total.
C6_Witness ==
    /\ After("JoinGenreTotals")
    /\ \E g \in gamestb : Len(g) = 2
    /\ \E t \in df_with_totals_publisher_platform_genre :
          /\ \E r \in Range(t) :
                IsNull(r.Publisher) /\ IsNull(r.Publisher_Total_Sales)
                    /\ ~IsNull(r.Genre_Total_Sales)
          /\ \E r \in Range(t) : ~IsNull(r.Publisher) /\ ~IsNull(r.Publisher_Total_Sales)

\* The rows of a table with the number of times each occurs.
RowBag(t) == [r \in Range(t) |-> Cardinality({i \in DOMAIN t : t[i] = r})]

\* C7: a second run on the same input file exports the same rows, with the same
\* Rank and rollup values, as the run before it.
C7_SameInputSameExport ==
    (After("Export") /\ ~IsNull(previous) /\ file = Val(previous).file) =>
        RowBag(Val(exported)) = RowBag(Val(previous).exported)

\* C8: whenever the cell of the "since 2010" chart has been run after the final
\* table exists, in whatever order with the other report cells, what it shows
\* and the frame it leaves are determined by the final table and its own query.
C8_ChartDependsOnFinalTableOnly ==
    LET own == QueryOutcomesOf("top_ranked_games_2010", finalgames)
    IN  /\ (~IsNull(shown) /\ Val(shown).cell = "top_ranked_games_2010_pd") =>
              Val(shown).figure \in
                  {Some(fig) : fig \in UNION {RankedFigure(out, PlatformColorsB) : out \in own}}
        /\ Bound(frames, "top_ranked_games_2010_pd") =>
              Val(frames["top_ranked_games_2010_pd"]) \in
                  {WithColor(out, out, PlatformColorsB) : out \in own}

\* C9 as stated: every report query that has been evaluated was evaluated after
\* the export, on the final table.
C9_EveryQueryOnFinalTable ==
    \A q \in DOMAIN report :
        After("Export") /\ Val(report[q]) = finalgames

\* C9 as amended: the stages run in the order Ingestion, Normalizer, Corrector,
\* Aggregator, Exporter; every report query but the first two is evaluated after
\* the export, on finalgames, the DataFrame the export wrote; the first two (the
\* all-time top 10 and the top 10 action games) are evaluated between the
\* Normalizer and the Corrector, on the table that carries the file's own Rank
\* and Global_Sales.
CarriesSourceValues(t, source) ==
    /\ Len(t) = Len(source)
    /\ \A i \in DOMAIN t :
          /\ t[i].Rank = CastInteger(source[i].Rank)
          /\ t[i].Global_Sales = CastDouble(source[i].Global_Sales)

C9_QueriesAfterTheirStage ==
    /\ \A q \in DOMAIN report \cap FinalQueries :
          /\ After("Export")
          /\ Val(report[q]) = finalgames
          /\ Val(exported) \in finalgames
    /\ \A q \in DOMAIN report \cap EarlyQueries :
          /\ After("CastSales")
          /\ \A t \in Val(report[q]) : CarriesSourceValues(t, Val(catalog))
    /\ DOMAIN report \subseteq FinalQueries \cup EarlyQueries
    /\ ~IsNull(catalog) <=> After("CreateTable")
    /\ After("CastSales") => \A t \in gamestb : Len(t) = Len(Val(catalog))
    /\ After("RepopulateRank") =>
          \A t \in gamestb : \A r \in Range(t) : GlobalIsRegionalSum(r)
    /\ (finalgames # {}) => After("Reorder")
    /\ ~IsNull(exported) <=> After("Export")
    /\ After("Export") =>
          Val(exported) \in
              {ReorderColumns(t) : t \in df_with_totals_publisher_platform_genre}

\* C9 witness: every cell of the notebook has been run on a two-line file: the
\* first two queries were evaluated on a table unlike the final one, and every
\* later query the analyzer accepts whatever the engine on the final table.
C9_Witness ==
    /\ Finished
    /\ Len(file) = 2
    /\ (FinalQueries \ SortsOnHiddenColumn) \cup EarlyQueries \subseteq DOMAIN report
    /\ Val(report["top_10_highest_sales"]) # finalgames
    /\ Val(report["games_released_per_year"]) = finalgames

\* C10: the working table a run loads is the input file that run read.
C10_WorkingTableIsInputFile ==
    pc = Index("LoadTable") + 1 => gamestb = {file}

====
